---- MODULE Spec2Model ----
(***************************************************************************)
(* Model of the two admin panels of StarBarista-cafe:                      *)
(*   - ContactMessages (the contact-message inbox, src/unnamed/part_000)   *)
(*   - BillDisplay (src/src/components/admin/BillDisplay.tsx)              *)
(* Each React event handler is one action.  An async handler is split at   *)
(* its awaits: the part after an await runs with the values its closure    *)
(* captured in the render in which the handler was created.                *)
(***************************************************************************)
EXTENDS Integers, Sequences, FiniteSets, TLC

\* ---------------------------------------------------------------- bounds
MaxMsgs == 2       \* messages in the persisted record when the panel mounts
MaxTime == 2       \* the clock runs 0..MaxTime
MaxInFlight == 3   \* export invocations of one kind that may be in flight together

\* ------------------------------------------------------------- constants
SendDelay == 1     \* the 1500 ms timer of "send via system", in clock ticks
NoTimestamp == -1  \* replyTimestamp undefined
NoSelection == 0   \* selectedMessage === null

VARIABLES
  \* ContactMessages
  messages,          \* useState<ContactMessage[]>
  storage,           \* localStorage['contactMessages'] (encoded)
  selectedMessage,   \* id of the selected message, NoSelection for null
  dialogOpen,
  replyDialogOpen,
  replyText,
  isSendingReply,
  loading,
  mounted,           \* the mount effect (initial loadMessages) has run
  pendingSends,      \* "send via system" invocations suspended at the await
  now,               \* clock read by new Date()
  toast,             \* notification emitted by the last handler step
  \* BillDisplay
  isGeneratingBill,
  downloads,         \* downloadPDF invocations suspended at html2canvas
  shareCapture,      \* shareBill invocations suspended at html2canvas
  shareBlob,         \* shareBill invocations suspended at canvas.toBlob
  shareNative,       \* shareBill invocations suspended at navigator.share
  platform,          \* what the browser offers as navigator.share
  billToast          \* notification emitted by the last bill handler step

inboxVars == <<messages, storage, selectedMessage, dialogOpen, replyDialogOpen,
               replyText, isSendingReply, loading, mounted, pendingSends, now,
               toast>>
billVars == <<isGeneratingBill, downloads, shareCapture, shareBlob, shareNative,
              platform, billToast>>
vars == <<messages, storage, selectedMessage, dialogOpen, replyDialogOpen,
          replyText, isSendingReply, loading, mounted, pendingSends, now,
          toast, isGeneratingBill, downloads, shareCapture, shareBlob,
          shareNative, platform, billToast>>

\* ------------------------------------------------------- ContactMessage
Ids == 1..MaxMsgs

ContactMessage(i, r) ==
  [id |-> i, isRead |-> r, replied |-> FALSE, replyTimestamp |-> NoTimestamp]

\* the lists the contact form may have left in storage: ids 1..n, any read flags
InitialLists ==
  UNION { { [k \in 1..n |-> ContactMessage(k, f[k])] : f \in [1..n -> BOOLEAN] }
          : n \in 0..MaxMsgs }

\* JSON.stringify / JSON.parse of the list: a record becomes a positional
\* tuple of its fields and back
JSONStringify(list) ==
  [k \in 1..Len(list) |->
     <<list[k].id, list[k].isRead, list[k].replied, list[k].replyTimestamp>>]

JSONParse(text) ==
  [k \in 1..Len(text) |->
     [id |-> text[k][1], isRead |-> text[k][2], replied |-> text[k][3],
      replyTimestamp |-> text[k][4]]]

\* the filter with its test inverted: msg.id === id
RECURSIVE FilterOutIdInverted(_, _)
FilterOutIdInverted(list, id) ==
  IF list = <<>> THEN <<>>
  ELSE IF Head(list).id = id
       THEN <<Head(list)>> \o FilterOutIdInverted(Tail(list), id)
       ELSE FilterOutIdInverted(Tail(list), id)

\* messages.filter(msg => msg.id !== id)
RECURSIVE FilterOutId(_, _)
FilterOutId(list, id) ==
  IF list = <<>> THEN <<>>
  ELSE IF Head(list).id # id THEN <<Head(list)>> \o FilterOutId(Tail(list), id)
       ELSE FilterOutId(Tail(list), id)

\* the map without its id test: every entry is marked read
MapMarkReadAll(list, id) ==
  [k \in 1..Len(list) |-> [list[k] EXCEPT !.isRead = TRUE]]

\* messages.map(msg => msg.id === id ? { ...msg, isRead: true } : msg)
MapMarkRead(list, id) ==
  [k \in 1..Len(list) |->
     IF list[k].id = id THEN [list[k] EXCEPT !.isRead = TRUE] ELSE list[k]]

\* the map without the replyTimestamp field
MapMarkRepliedNoStamp(list, id, date) ==
  [k \in 1..Len(list) |->
     IF list[k].id = id THEN [list[k] EXCEPT !.replied = TRUE] ELSE list[k]]

\* the map writing replied: msg.id === id on every entry
MapMarkRepliedOnly(list, id, date) ==
  [k \in 1..Len(list) |->
     IF list[k].id = id
     THEN [list[k] EXCEPT !.replied = TRUE, !.replyTimestamp = date]
     ELSE [list[k] EXCEPT !.replied = FALSE]]

\* messages.map(msg => msg.id === id ?
\*   { ...msg, replied: true, replyTimestamp: new Date().toISOString() } : msg)
MapMarkReplied(list, id, date) ==
  [k \in 1..Len(list) |->
     IF list[k].id = id
     THEN [list[k] EXCEPT !.replied = TRUE, !.replyTimestamp = date]
     ELSE list[k]]

\* the filter with its test inverted: msg.isRead
RECURSIVE FilterRead(_)
FilterRead(list) ==
  IF list = <<>> THEN <<>>
  ELSE IF Head(list).isRead THEN <<Head(list)>> \o FilterRead(Tail(list))
       ELSE FilterRead(Tail(list))

\* messages.filter(msg => !msg.isRead)
RECURSIVE FilterUnread(_)
FilterUnread(list) ==
  IF list = <<>> THEN <<>>
  ELSE IF ~Head(list).isRead THEN <<Head(list)>> \o FilterUnread(Tail(list))
       ELSE FilterUnread(Tail(list))

IdsOf(list) == { list[k].id : k \in 1..Len(list) }

\* String.prototype.trim on the drafts the model distinguishes
ReplyTexts == {"", "  ", "Dear"}
Trim(s) == IF s = "  " THEN "" ELSE s
ReplyTemplate == "Dear"

\* the table rows and the Refresh button are behind the modal dialogs
TableInteractive == mounted /\ ~loading /\ ~dialogOpen /\ ~replyDialogOpen

\* ------------------------------------------------------------------ Init
InitInbox ==
  /\ messages = <<>>
  /\ storage \in { JSONStringify(l) : l \in InitialLists }
  /\ selectedMessage = NoSelection
  /\ dialogOpen = FALSE
  /\ replyDialogOpen = FALSE
  /\ replyText = ""
  /\ isSendingReply = FALSE
  /\ loading = TRUE
  /\ mounted = FALSE
  /\ pendingSends = {}
  /\ now = 0
  /\ toast = "none"

InitBill ==
  /\ isGeneratingBill = FALSE
  /\ downloads = 0
  /\ shareCapture = 0
  /\ shareBlob = 0
  /\ shareNative = 0
  /\ platform \in {"absent", "falsy", "present"}
  /\ billToast = "none"

\* ------------------------------------------------ ContactMessages actions
\* loadMessages; readFails: localStorage.getItem or JSON.parse throws
loadMessages(readFails) ==
  /\ IF readFails
     THEN /\ toast' = "Failed to load contact messages"
          /\ UNCHANGED messages
     ELSE /\ messages' = JSONParse(storage)
          /\ toast' = "none"
  /\ loading' = FALSE
  /\ UNCHANGED <<storage, selectedMessage, dialogOpen, replyDialogOpen,
                 replyText, isSendingReply, pendingSends, now>>

\* useEffect(() => { loadMessages(); }, [])
MountEffect ==
  /\ ~mounted
  /\ mounted' = TRUE
  /\ \E readFails \in BOOLEAN : loadMessages(readFails)
  /\ UNCHANGED billVars

\* Refresh button
Refresh ==
  /\ TableInteractive
  /\ UNCHANGED mounted
  /\ \E readFails \in BOOLEAN : loadMessages(readFails)
  /\ UNCHANGED billVars

markAsRead(id) ==
  /\ messages' = MapMarkRead(messages, id)
  /\ storage' = JSONStringify(MapMarkRead(messages, id))

handleViewMessage(k) ==
  /\ TableInteractive
  /\ k \in 1..Len(messages)
  /\ selectedMessage' = messages[k].id
  /\ dialogOpen' = TRUE
  /\ IF ~messages[k].isRead
     THEN markAsRead(messages[k].id)
     ELSE UNCHANGED <<messages, storage>>
  /\ toast' = "none"
  /\ UNCHANGED <<replyDialogOpen, replyText, isSendingReply, loading, mounted,
                 pendingSends, now>>
  /\ UNCHANGED billVars

handleDeleteMessage(id) ==
  /\ messages' = FilterOutId(messages, id)
  /\ storage' = JSONStringify(FilterOutId(messages, id))
  /\ dialogOpen' = FALSE
  /\ toast' = "Message deleted successfully"

\* the row's delete button
RowDelete(k) ==
  /\ TableInteractive
  /\ k \in 1..Len(messages)
  /\ selectedMessage' = messages[k].id
  /\ handleDeleteMessage(messages[k].id)
  /\ UNCHANGED <<replyDialogOpen, replyText, isSendingReply, loading, mounted,
                 pendingSends, now>>
  /\ UNCHANGED billVars

\* the detail dialog's Delete button: handleDeleteMessage(selectedMessage?.id || '')
DialogDelete ==
  /\ dialogOpen
  /\ handleDeleteMessage(selectedMessage)
  /\ UNCHANGED <<selectedMessage, replyDialogOpen, replyText, isSendingReply,
                 loading, mounted, pendingSends, now>>
  /\ UNCHANGED billVars

\* the detail dialog's Close button and onOpenChange
CloseDialog ==
  /\ dialogOpen
  /\ dialogOpen' = FALSE
  /\ toast' = "none"
  /\ UNCHANGED <<messages, storage, selectedMessage, replyDialogOpen, replyText,
                 isSendingReply, loading, mounted, pendingSends, now>>
  /\ UNCHANGED billVars

handleReplyClick ==
  /\ dialogOpen
  /\ dialogOpen' = FALSE
  /\ replyDialogOpen' = TRUE
  /\ replyText' = IF selectedMessage # NoSelection THEN ReplyTemplate ELSE replyText
  /\ toast' = "none"
  /\ UNCHANGED <<messages, storage, selectedMessage, isSendingReply, loading,
                 mounted, pendingSends, now>>
  /\ UNCHANGED billVars

\* the reply dialog's Cancel button and onOpenChange
CancelReply ==
  /\ replyDialogOpen
  /\ replyDialogOpen' = FALSE
  /\ toast' = "none"
  /\ UNCHANGED <<messages, storage, selectedMessage, dialogOpen, replyText,
                 isSendingReply, loading, mounted, pendingSends, now>>
  /\ UNCHANGED billVars

\* the Textarea's onChange
EditReplyText(t) ==
  /\ replyDialogOpen
  /\ t # replyText
  /\ replyText' = t
  /\ toast' = "none"
  /\ UNCHANGED <<messages, storage, selectedMessage, dialogOpen, replyDialogOpen,
                 isSendingReply, loading, mounted, pendingSends, now>>
  /\ UNCHANGED billVars

\* disabled props of the two send buttons
EmailClientDisabled == isSendingReply
SendReplyDisabled == isSendingReply \/ Trim(replyText) = ""

\* handleSendReplyViaSystem up to the await: the closure keeps the messages
\* and selectedMessage of the render the handler was created in
SendReplyStart ==
  /\ replyDialogOpen
  /\ ~SendReplyDisabled
  /\ ~(selectedMessage = NoSelection \/ Trim(replyText) = "")
  /\ isSendingReply' = TRUE
  /\ pendingSends' = pendingSends \cup
       {[messages |-> messages, selectedMessage |-> selectedMessage,
         initiated |-> now]}
  /\ toast' = "none"
  /\ UNCHANGED <<messages, storage, selectedMessage, dialogOpen, replyDialogOpen,
                 replyText, loading, mounted, now>>
  /\ UNCHANGED billVars

\* the completion reading the selection of the latest render, not its closure's
SendReplyCompleteLatest(p) ==
  /\ p \in pendingSends
  /\ now >= p.initiated + SendDelay
  /\ messages' = MapMarkReplied(p.messages, selectedMessage, now)
  /\ storage' = JSONStringify(MapMarkReplied(p.messages, selectedMessage, now))
  /\ toast' = "Reply sent successfully"
  /\ replyDialogOpen' = FALSE
  /\ replyText' = ""
  /\ isSendingReply' = FALSE
  /\ pendingSends' = pendingSends \ {p}
  /\ UNCHANGED <<selectedMessage, dialogOpen, loading, mounted, now>>
  /\ UNCHANGED billVars

\* handleSendReplyViaSystem after the await (the timer has fired)
SendReplyComplete(p) ==
  /\ p \in pendingSends
  /\ now >= p.initiated + SendDelay
  /\ messages' = MapMarkReplied(p.messages, p.selectedMessage, now)
  /\ storage' = JSONStringify(MapMarkReplied(p.messages, p.selectedMessage, now))
  /\ toast' = "Reply sent successfully"
  /\ replyDialogOpen' = FALSE
  /\ replyText' = ""
  /\ isSendingReply' = FALSE
  /\ pendingSends' = pendingSends \ {p}
  /\ UNCHANGED <<selectedMessage, dialogOpen, loading, mounted, now>>
  /\ UNCHANGED billVars

handleSendReplyViaEmailClient ==
  /\ replyDialogOpen
  /\ ~EmailClientDisabled
  /\ selectedMessage # NoSelection
  /\ messages' = MapMarkReplied(messages, selectedMessage, now)
  /\ storage' = JSONStringify(MapMarkReplied(messages, selectedMessage, now))
  /\ toast' = "Email client opened with pre-filled reply"
  /\ replyDialogOpen' = FALSE
  /\ replyText' = ""
  /\ UNCHANGED <<selectedMessage, dialogOpen, isSendingReply, loading, mounted,
                 pendingSends, now>>
  /\ UNCHANGED billVars

\* const unreadCount = messages.filter(msg => !msg.isRead).length, per render
unreadCount == Len(FilterUnread(messages))

\* {unreadCount > 0 && <Badge>{unreadCount} new</Badge>}
UnreadBadgeShown == unreadCount > 0

\* time passes
Tick ==
  /\ now < MaxTime
  /\ now' = now + 1
  /\ UNCHANGED <<messages, storage, selectedMessage, dialogOpen, replyDialogOpen,
                 replyText, isSendingReply, loading, mounted, pendingSends, toast>>
  /\ UNCHANGED billVars

Next ==
  \/ MountEffect
  \/ Refresh
  \/ \E k \in 1..MaxMsgs : handleViewMessage(k)
  \/ \E k \in 1..MaxMsgs : RowDelete(k)
  \/ DialogDelete
  \/ CloseDialog
  \/ handleReplyClick
  \/ CancelReply
  \/ \E t \in ReplyTexts : EditReplyText(t)
  \/ SendReplyStart
  \/ \E p \in pendingSends : SendReplyComplete(p)
  \/ handleSendReplyViaEmailClient
  \/ Tick

Init == InitInbox /\ InitBill /\ platform = "present"

Spec == Init /\ [][Next]_vars

\* --------------------------------------------------- BillDisplay actions
\* <div ref={billRef}>: the ref is attached whenever the buttons can be clicked
billRefCurrent == TRUE

\* 'share' in navigator, and the truthiness of navigator.share
ShareInNavigator == platform # "absent"
NavigatorShare == platform = "present"

\* disabled props of the export buttons
PrintDisabled == isGeneratingBill
DownloadDisabled == isGeneratingBill
ShareDisabled == isGeneratingBill \/ ~ShareInNavigator

printBill(windowOpens) ==
  /\ ~PrintDisabled
  /\ billRefCurrent
  /\ billToast' = IF windowOpens THEN "none" ELSE "Unable to open print window"
  /\ UNCHANGED <<isGeneratingBill, downloads, shareCapture, shareBlob,
                 shareNative, platform>>
  /\ UNCHANGED inboxVars

\* downloadPDF up to await html2canvas(...)
DownloadStart ==
  /\ ~DownloadDisabled
  /\ billRefCurrent
  /\ downloads < MaxInFlight
  /\ isGeneratingBill' = TRUE
  /\ downloads' = downloads + 1
  /\ billToast' = "none"
  /\ UNCHANGED <<shareCapture, shareBlob, shareNative, platform>>
  /\ UNCHANGED inboxVars

\* downloadPDF clearing the flag at the end of the try block, not in finally
DownloadFinishNoFinally(ok) ==
  /\ downloads > 0
  /\ downloads' = downloads - 1
  /\ billToast' = IF ok THEN "Bill downloaded as PDF" ELSE "Failed to download PDF"
  /\ isGeneratingBill' = IF ok THEN FALSE ELSE isGeneratingBill
  /\ UNCHANGED <<shareCapture, shareBlob, shareNative, platform>>
  /\ UNCHANGED inboxVars

\* downloadPDF after the await; ok: capture, encoding and save all succeed
DownloadFinish(ok) ==
  /\ downloads > 0
  /\ downloads' = downloads - 1
  /\ billToast' = IF ok THEN "Bill downloaded as PDF" ELSE "Failed to download PDF"
  /\ isGeneratingBill' = FALSE
  /\ UNCHANGED <<shareCapture, shareBlob, shareNative, platform>>
  /\ UNCHANGED inboxVars

SharesInFlight == shareCapture + shareBlob + shareNative

\* shareBill up to await html2canvas(...)
ShareStart ==
  /\ ~ShareDisabled
  /\ billRefCurrent
  /\ SharesInFlight < MaxInFlight
  /\ shareCapture' = shareCapture + 1
  /\ billToast' = "none"
  /\ UNCHANGED <<isGeneratingBill, downloads, shareBlob, shareNative, platform>>
  /\ UNCHANGED inboxVars

\* html2canvas settles; on success shareBill goes on to canvas.toBlob
ShareCaptured(ok) ==
  /\ shareCapture > 0
  /\ shareCapture' = shareCapture - 1
  /\ IF ok
     THEN /\ shareBlob' = shareBlob + 1
          /\ billToast' = "none"
     ELSE /\ billToast' = "Failed to share bill"
          /\ UNCHANGED shareBlob
  /\ UNCHANGED <<isGeneratingBill, downloads, shareNative, platform>>
  /\ UNCHANGED inboxVars

\* the toBlob callback runs; with a blob shareBill tests navigator.share
ShareBlobbed(blob) ==
  /\ shareBlob > 0
  /\ shareBlob' = shareBlob - 1
  /\ IF ~blob
     THEN /\ billToast' = "Failed to share bill"
          /\ UNCHANGED shareNative
     ELSE IF NavigatorShare
          THEN /\ shareNative' = shareNative + 1
               /\ billToast' = "none"
          ELSE /\ billToast' = "Sharing not supported on this browser"
               /\ UNCHANGED shareNative
  /\ UNCHANGED <<isGeneratingBill, downloads, shareCapture, platform>>
  /\ UNCHANGED inboxVars

\* navigator.share(...) settles
ShareSettled(ok) ==
  /\ shareNative > 0
  /\ shareNative' = shareNative - 1
  /\ billToast' = IF ok THEN "none" ELSE "Failed to share bill"
  /\ UNCHANGED <<isGeneratingBill, downloads, shareCapture, shareBlob, platform>>
  /\ UNCHANGED inboxVars

NextBill ==
  \/ \E windowOpens \in BOOLEAN : printBill(windowOpens)
  \/ DownloadStart
  \/ \E ok \in BOOLEAN : DownloadFinish(ok)
  \/ ShareStart
  \/ \E ok \in BOOLEAN : ShareCaptured(ok)
  \/ \E blob \in BOOLEAN : ShareBlobbed(blob)
  \/ \E ok \in BOOLEAN : ShareSettled(ok)

\* the bill panel alone; the inbox is not mounted on this page
InitBillPage ==
  /\ InitBill
  /\ messages = <<>> /\ storage = <<>> /\ selectedMessage = NoSelection
  /\ dialogOpen = FALSE /\ replyDialogOpen = FALSE /\ replyText = ""
  /\ isSendingReply = FALSE /\ loading = TRUE /\ mounted = FALSE
  /\ pendingSends = {} /\ now = 0 /\ toast = "none"

SpecBill == InitBillPage /\ [][NextBill]_vars

\* ------------------------------------------------------------ properties
Stored == JSONParse(storage)

InList(list, id) == \E k \in 1..Len(list) : list[k].id = id
IsReadIn(list, id) == \E k \in 1..Len(list) : list[k].id = id /\ list[k].isRead
RepliedIn(list, id) == \E k \in 1..Len(list) : list[k].id = id /\ list[k].replied
RepliedSince(list, id, t) ==
  \E k \in 1..Len(list) :
     list[k].id = id /\ list[k].replied /\ list[k].replyTimestamp >= t

\* C1: an id that is in neither the in-memory list nor the persisted record
\* (it was deleted) is in neither of them after any step of the panel.
C1_DeletePermanent ==
  [][\A id \in Ids :
       (~InList(messages, id) /\ ~InList(Stored, id))
         => (~InList(messages', id) /\ ~InList(JSONParse(storage'), id))]_vars

\* C2: a message that is read in memory and in storage and stays in the list
\* is still read, in memory and in storage, after any step of the panel.
C2_ReadMonotone ==
  [][\A id \in Ids :
       (IsReadIn(messages, id) /\ IsReadIn(Stored, id) /\ InList(messages', id))
         => (IsReadIn(messages', id) /\ IsReadIn(JSONParse(storage'), id))]_vars

\* C3: every load that fails (initial load or Refresh) shows the error
\* notification and leaves the in-memory list empty.
C3_FailedLoadEmpties ==
  [][((MountEffect \/ Refresh) /\ loadMessages(TRUE))
       => (toast' = "Failed to load contact messages" /\ messages' = <<>>)]_vars

\* C4: where navigator.share is absent no shareBill invocation ever reaches
\* the capture (html2canvas / toBlob).
C4_NoCaptureWithoutShare ==
  ~NavigatorShare => (shareCapture = 0 /\ shareBlob = 0)

\* C5: at most one invocation of each suspending operation is in flight.
C5_OneInFlight ==
  /\ Cardinality(pendingSends) <= 1
  /\ downloads <= 1
  /\ SharesInFlight <= 1

\* C6: a delete step removes exactly the entry with the given id, keeps the
\* others unchanged and in order, persists exactly the new list and leaves
\* the detail dialog closed.
RemovedAt(old, new, k) ==
  /\ Len(new) = Len(old) - 1
  /\ \A j \in 1..(k - 1) : new[j] = old[j]
  /\ \A j \in k..Len(new) : new[j] = old[j + 1]

DeletePost(id) ==
  /\ \E k \in 1..Len(messages) :
        messages[k].id = id /\ RemovedAt(messages, messages', k)
  /\ JSONParse(storage') = messages'
  /\ Len(storage') = Len(messages')
  /\ dialogOpen' = FALSE

C6_DeleteExact ==
  [][/\ \A k \in 1..Len(messages) : RowDelete(k) => DeletePost(messages[k].id)
     /\ DialogDelete => DeletePost(selectedMessage)]_vars

C6_Witness ==
  /\ toast = "Message deleted successfully"
  /\ ~dialogOpen
  /\ selectedMessage # NoSelection
  /\ ~InList(messages, selectedMessage)
  /\ Len(messages) >= 1
  /\ Stored = messages

\* C7: while a download is in flight isGeneratingBill is true and Print,
\* Download and Share are disabled; when downloadPDF exits the flag is false,
\* and the failing exit reports the error notification.
C7_DownloadBusy ==
  /\ [](downloads > 0 =>
          (isGeneratingBill /\ PrintDisabled /\ DownloadDisabled /\ ShareDisabled))
  /\ [][/\ downloads' < downloads =>
             (~isGeneratingBill' /\
              billToast' \in {"Bill downloaded as PDF", "Failed to download PDF"})
        /\ DownloadFinish(FALSE) =>
             (~isGeneratingBill' /\ billToast' = "Failed to download PDF")]_vars

C7_Witness ==
  /\ billToast = "Failed to download PDF"
  /\ downloads = 0
  /\ ~isGeneratingBill

\* C8: every send (completion of "send via system", or "open in mail
\* client") leaves the target message replied, in memory and in storage,
\* with a reply timestamp not earlier than the initiation of that send.
C8_ReplyTimestamp ==
  [][/\ \A p \in pendingSends : SendReplyComplete(p) =>
          (/\ RepliedSince(messages', p.selectedMessage, p.initiated)
           /\ RepliedSince(JSONParse(storage'), p.selectedMessage, p.initiated))
     /\ handleSendReplyViaEmailClient =>
          (/\ RepliedSince(messages', selectedMessage, now)
           /\ RepliedSince(JSONParse(storage'), selectedMessage, now))]_vars

\* a second send on a message has overwritten an earlier reply timestamp
C8_Witness ==
  /\ toast = "Reply sent successfully"
  /\ \E k \in 1..Len(messages) :
        /\ messages[k].replied
        /\ messages[k].replyTimestamp >= 1
        /\ messages[k].id = selectedMessage
  /\ Stored = messages

\* C9: a message that is replied in memory and in storage and stays in the
\* list is still replied, in memory and in storage, after any step.
C9_RepliedMonotone ==
  [][\A id \in Ids :
       (RepliedIn(messages, id) /\ RepliedIn(Stored, id) /\ InList(messages', id))
         => (RepliedIn(messages', id) /\ RepliedIn(JSONParse(storage'), id))]_vars

\* a system send completed on one message after another was replied earlier
C9_Witness ==
  /\ toast = "Reply sent successfully"
  /\ \E j, k \in 1..Len(messages) :
        /\ messages[j].replied /\ messages[k].replied
        /\ messages[j].replyTimestamp < messages[k].replyTimestamp
        /\ Stored[j].replied

\* C10: viewing row k when it is unread sets isRead on that entry only, in
\* memory and in storage, every other entry and field unchanged; viewing a
\* read row changes neither the list nor the persisted record.
ViewPost(k) ==
  IF messages[k].isRead
  THEN messages' = messages /\ storage' = storage
  ELSE /\ Len(messages') = Len(messages)
       /\ \A j \in 1..Len(messages) : j # k => messages'[j] = messages[j]
       /\ messages'[k].isRead
       /\ messages'[k].id = messages[k].id
       /\ messages'[k].replied = messages[k].replied
       /\ messages'[k].replyTimestamp = messages[k].replyTimestamp
       /\ JSONParse(storage') = messages'
       /\ Len(storage') = Len(messages')

C10_ViewMarksRead ==
  [][\A k \in 1..Len(messages) : handleViewMessage(k) => ViewPost(k)]_vars

\* an unread message was viewed while another one stays unread
C10_Witness ==
  /\ dialogOpen
  /\ IsReadIn(messages, selectedMessage)
  /\ IsReadIn(Stored, selectedMessage)
  /\ \E k \in 1..Len(messages) : ~messages[k].isRead /\ ~Stored[k].isRead

\* C11: in every reachable state the displayed unread count is the number of
\* entries of the in-memory list with isRead = false, and the badge is shown
\* exactly when that number is greater than zero.
UnreadEntries == { k \in 1..Len(messages) : ~messages[k].isRead }

C11_UnreadCount ==
  /\ unreadCount = Cardinality(UnreadEntries)
  /\ UnreadBadgeShown <=> (Cardinality(UnreadEntries) > 0)

\* one message was viewed and read, another is still unread: the badge shows 1
C11_Witness ==
  /\ dialogOpen
  /\ IsReadIn(messages, selectedMessage)
  /\ Len(messages) >= 2
  /\ unreadCount = 1
  /\ UnreadBadgeShown

\* C12: a completing "send via system" sets replied on the message selected
\* when the send was initiated; every other listed message, the currently
\* selected one included, keeps its replied flag and reply timestamp, in
\* memory and in storage.
ReplyFieldsKept(old, new, id) ==
  \A j \in 1..Len(old) : \A k \in 1..Len(new) :
     (old[j].id = id /\ new[k].id = id) =>
        (/\ new[k].replied = old[j].replied
         /\ new[k].replyTimestamp = old[j].replyTimestamp)

C12_ReplyTargetsInitiator ==
  [][\A p \in pendingSends : SendReplyComplete(p) =>
       (/\ RepliedSince(messages', p.selectedMessage, now)
        /\ RepliedSince(JSONParse(storage'), p.selectedMessage, now)
        /\ \A id \in Ids \ {p.selectedMessage} :
              /\ ReplyFieldsKept(messages, messages', id)
              /\ ReplyFieldsKept(Stored, JSONParse(storage'), id))]_vars

\* the send completed after the user cancelled and viewed another message
C12_Witness ==
  /\ toast = "Reply sent successfully"
  /\ dialogOpen
  /\ InList(messages, selectedMessage)
  /\ ~RepliedIn(messages, selectedMessage)
  /\ ~RepliedIn(Stored, selectedMessage)
  /\ \E id \in Ids : id # selectedMessage /\ RepliedIn(messages, id)
====
